---- MODULE Spec2Model ----
(***************************************************************************)
(* BrainWave front end (src/necessary/App.tsx, component SimpleBrain).     *)
(*                                                                         *)
(* The state of the component is its React state (connected, brainData,    *)
(* webcamActive, videoStream, lastErrorTime, errorCount, eyePosition,      *)
(* blinkDetected), the locals of the eye tracking loop started by          *)
(* startEyeTracking, the timers and requests in flight, and the clock.     *)
(*                                                                         *)
(* Numbers.  Time is in milliseconds.  Brightness values are integers in   *)
(* 0..255.  The activity scalars of brainData are fixed point numbers in   *)
(* units of 0.001 (0.9 is 900); a product with 0.2 or 0.1 is rounded down  *)
(* to the unit.  The comparisons of processFrame with the factors 0.8 and  *)
(* 1.1 are cross-multiplied so that they are exact on integers.            *)
(*                                                                         *)
(* The module holds one specification per part of the component:           *)
(*   EstSpec     the eye tracking loop (processFrame) on its own           *)
(*   BlinkSpec   the eye tracking loop with the clock and the blink timers *)
(*   SmoothSpec  the data poll together with updateBrainValues             *)
(*   PollSpec    the data poll, its error counting and the reset           *)
(*   LeftSpec    updateBrainValues alone, looking left                     *)
(*   ConnSpec    handleConnect and handleReset                             *)
(*   CamSpec     the webcam effect                                         *)
(*   StatusSpec  the backend status check with connect and the data poll   *)
(*   EyeSpec     the eye tracking loop with the eye-data poll              *)
(*   LogSpec     the console.error wrapper of utils/debug-helper.ts        *)
(*   TimerSpec   the intervals of the poll, the smoother and the telemetry *)
(*   OverlapSpec the data poll with a cycle overtaken by the next one       *)
(*   TrackSpec   connect, camera and the start of eye tracking             *)
(*   SimSpec     the EEG simulator of src/unnamed/part_001                 *)
(***************************************************************************)
EXTENDS Integers, Sequences, FiniteSets, TLC

VARIABLES
    now,                 \* Date.now(), ms
    connected,           \* useState, line 17
    brainData,           \* useState, line 19: NoData or [left, right, state, blink, eye_position]
    webcamActive,        \* useState, line 20
    videoStream,         \* useState, line 21: NoStream or a stream id
    lastErrorTime,       \* useState, line 22
    errorCount,          \* useState, line 23
    eyePosition,         \* useState, line 25
    blinkDetected,       \* useState, line 26
    alertness,           \* useState, line 27
    tracking,            \* a processFrame loop is running on a playing video
    eyePositionCounter,  \* local of startEyeTracking, line 190
    frameSkipCounter,    \* local of startEyeTracking, line 191
    prevTotalBrightness, \* local of startEyeTracking, line 192
    newPosition,         \* the vote of the last processed frame of the loop ("none" before the first)
    voteRun,             \* how many processed frames in a row, in this loop, voted newPosition
    seeded,              \* the direction whose counter was last seeded: center at line 190, the winner at line 292
    netVotes,            \* per direction, the votes counted since that seeding, net of decay
    sample,              \* the brightness sample of the last processed frame of the loop (NoSample before the first)
    videoAttached,       \* the video element now rendered has received the stream and its onloadedmetadata handler (lines 487-489)
    blinkTimers,         \* fire times of the pending setTimeout(() => setBlinkDetected(false), 300)
    blinkSetAt,          \* when blinkDetected last went from false to true by a brightness crossing
    poll,                \* the fetchBothData cycle in flight: where it waits, and what its closure captured
    pollDue,             \* the poll effect has run and its initial fetchBothData() (line 172) is to start
    pollAt,              \* when the interval of line 173 fires next (NoTimer when there is none)
    resetsInFlight,      \* handleReset calls that wait for their requests
    ticks,               \* how many times updateBrainValues has run
    jitter,              \* the two random variations of the last tick that recorded them
    cycleStartedAt,      \* when the last fetchBothData cycle started (NoTimer before the first)
    pollWaiting,         \* an older fetchBothData cycle whose next answer is still to come (IdlePoll when there is none)
    connectCall,         \* the handleConnect call in flight: where it waits, and the retries its chain has scheduled
    retryAt,             \* when setTimeout(handleConnect, 1000) fires (NoTimer when there is none)
    mounted,             \* the component is mounted
    gumPending,          \* the getUserMedia requests that are not settled yet
    liveStreams,         \* the acquired streams whose tracks have not been stopped
    effectStream,        \* videoStream as the closure of the last run of the webcam effect holds it
    streamsMade,         \* how many getUserMedia requests have been made
    statusCheck,         \* the checkBackend call in flight, and the connected its closure holds
    statusDue,           \* the status effect has run and its initial checkBackend() (line 58) is to start
    statusAt,            \* when the interval of line 59 fires next (NoTimer when there is none)
    smoothing,           \* the interval of line 466 (updateBrainValues) exists
    sending,             \* the interval of line 89 (sendEyeTrackingData) exists
    sendDue,             \* the telemetry effect has run and its initial sendEyeTrackingData() (line 86) is to start
    sent,                \* the body of the last POST /api/webcam_data (NoData before the first)
    errorLog,            \* localStorage 'bw_error_log', parsed: a sequence of entries
    errorCalls,          \* how many times console.error has been called
    sim,                 \* the EEGSimulator instance: connected, currentState, stateTimer, and the last of its connect / disconnect calls
    simCall              \* the last getEEGData / getMentalState call on it: what it was, and what it resolved to

estVars == <<tracking, eyePositionCounter, frameSkipCounter, prevTotalBrightness,
             newPosition, voteRun, seeded, netVotes, sample, videoAttached>>
blinkVars == <<blinkTimers, blinkSetAt>>
connVars == <<connectCall, retryAt>>
sessionVarsButConn == <<connected, brainData, webcamActive, videoStream, lastErrorTime,
                        errorCount, alertness, poll, pollDue, pollAt, resetsInFlight,
                        ticks, jitter, cycleStartedAt, pollWaiting>>
camVars == <<mounted, gumPending, liveStreams, effectStream, streamsMade>>
logVars == <<errorLog, errorCalls>>
simVars == <<sim, simCall>>
statusVars == <<statusCheck, statusDue, statusAt>>
intervalVars == <<smoothing, sending, sendDue>>
sessionVars == <<connected, brainData, webcamActive, videoStream, lastErrorTime,
                 errorCount, alertness, poll, pollDue, pollAt, resetsInFlight, ticks, jitter, cycleStartedAt, pollWaiting,
                 connVars, camVars, statusCheck, sent, logVars, simVars>>
pollVars == <<poll, pollDue, pollAt, resetsInFlight>>

vars == <<now, connected, brainData, webcamActive, videoStream, lastErrorTime,
          errorCount, eyePosition, blinkDetected, alertness, tracking,
          eyePositionCounter, frameSkipCounter, prevTotalBrightness, newPosition,
          voteRun, seeded, netVotes, sample, videoAttached, blinkTimers, blinkSetAt, poll, pollDue, pollAt,
          resetsInFlight, ticks, jitter, cycleStartedAt, pollWaiting, connectCall, retryAt, mounted, gumPending,
          liveStreams, effectStream, streamsMade, statusCheck, statusDue, statusAt,
          smoothing, sending, sendDue, sent, errorLog, errorCalls, sim, simCall>>

NoData == [null |-> TRUE]
NoStream == 0
NoTimer == 0
NoSample == <<>>
\* No poll cycle is in flight.
NoResponse == [kind |-> "none", data |-> NoData]
IdlePoll == [pc |-> "idle", errorCount |-> 0, lastErrorTime |-> 0, asked |-> <<>>,
             got |-> NoResponse]
NoCall == [pc |-> "idle", retries |-> 0]
\* new EEGSimulator() (part_001, lines 9-13 and 169), and no call made on it yet.
NewSimulator == [connected |-> FALSE, currentState |-> "Neutral", stateTimer |-> 0,
                 lastOp |-> "none"]
NoSimCall == [op |-> "none", result |-> "none", eeg |-> "none"]
NoStatusCheck == [pc |-> "idle", connected |-> FALSE]
Directions == {"left", "center", "right"}

Max2(a, b) == IF a > b THEN a ELSE b
Min2(a, b) == IF a < b THEN a ELSE b
Abs(a) == IF a < 0 THEN -a ELSE a

(***************************************************************************)
(* Bounds of the model.                                                    *)
(***************************************************************************)
\* The clock of BlinkSpec stops this many ms after StartTime.
MaxBlinkTime == 1000
\* voteRun stops counting here.
MaxRun == 7
\* The clock advances by at most this many ms at a time (and never past a timer).
ClockStep == 100
\* The clock of PollSpec stops this many ms after StartTime.
MaxPollTime == 5400
\* The clock of SmoothSpec stops this many ms after StartTime.
MaxSmoothTime == 200
\* errorCount is not counted beyond this.
MaxErrors == 7
\* At most this many handleReset calls wait for their requests at a time.
MaxResets == 2
\* updateBrainValues runs at most this many times in SmoothSpec.
MaxTicks == 2
\* The clock of ConnSpec stops this many ms after StartTime.
MaxConnTime == 3000
\* The clock of StatusSpec stops this many ms after StartTime.
MaxStatusTime == 3000
\* The clock of TimerSpec stops this many ms after StartTime.
MaxTimerTime == 200
\* console.error is called at most this many times in LogSpec.
MaxCalls == 120
\* getUserMedia is called at most this many times in CamSpec.
MaxStreams == 3

(***************************************************************************)
(* Program constants.                                                      *)
(***************************************************************************)
\* Date.now() at the start: any value more than 5000 ms after lastErrorTime = 0.
StartTime == 10000
\* maxCount > 5
VoteThreshold == 5
\* eyePositionCounter[currentPosition] = 2
ResetBias == 2
\* brightnessDiff > 15
BlinkDelta == 15
\* setTimeout(() => setBlinkDetected(false), 300)
BlinkClearDelay == 300
\* frameSkipCounter = (frameSkipCounter + 1) % 3
FrameSkip == 3
\* setInterval(fetchBothData, 200)
PollPeriod == 200
RetryDelay == 1000
\* setInterval(checkBackend, 3000)
StatusPeriod == 3000
\* if (errorLog.length > 50)
LogCap == 50
\* now - lastErrorTime > 5000
ErrorWindow == 5000
\* errorCount > 5
ErrorLimit == 5
\* The targets and the range of updateBrainValues, in units of 0.001.
HighTarget == 900
LowTarget == 200
CenterLeftTarget == 600
CenterRightTarget == 650
MinActivity == 100
MaxActivity == 950
\* Math.random() * 0.03 - 0.015
MaxJitter == 15

(***************************************************************************)
(* The effects that own interval timers.  An effect runs again after every *)
(* step that changed one of its dependencies: its cleanup clears the       *)
(* interval and its body sets a new one if its condition holds.            *)
(***************************************************************************)
\* The status effect, lines 41-63, whose dependency array is [connected]:
\* after a step that changed connected the interval is cleared, checkBackend
\* is called at once and a new interval is set.
StatusEffect ==
    /\ statusDue' = IF connected' # connected THEN TRUE ELSE statusDue
    /\ statusAt' = IF connected' # connected THEN now + StatusPeriod ELSE statusAt

\* The dependency array of line 468, and the condition of line 420.
SmoothDepsChange ==
    \/ connected' # connected
    \/ webcamActive' # webcamActive
    \/ eyePosition' # eyePosition
    \/ brainData' # brainData

\* The dependency array of line 92.
SendDepsChangeButConnected ==
    \/ webcamActive' # webcamActive
    \/ eyePosition' # eyePosition
    \/ blinkDetected' # blinkDetected

SendDepsChange ==
    \/ connected' # connected
    \/ webcamActive' # webcamActive
    \/ eyePosition' # eyePosition
    \/ blinkDetected' # blinkDetected

\* The smoother effect (lines 419-468) and the telemetry effect (lines 66-92)
\* after a step that may have changed their dependencies: the cleanup clears
\* the interval, and the body sets a new one if its condition holds (lines 67
\* and 420); the telemetry effect also sends at once (line 86).
IntervalEffects ==
    /\ smoothing' = IF SmoothDepsChange
                     THEN connected' /\ webcamActive' /\ brainData' # NoData
                     ELSE smoothing
    /\ sending' = IF SendDepsChange THEN connected' /\ webcamActive' ELSE sending
    /\ sendDue' = IF SendDepsChange THEN connected' /\ webcamActive' ELSE sendDue

(***************************************************************************)
(* The eye tracking loop: startEyeTracking and processFrame.               *)
(***************************************************************************)
\* A brightness sample <<left, center, right>> as calculateBrightness returns
\* it for the three regions, taken as integers.
SampleLeft(s) == s[1]
SampleCenter(s) == s[2]
SampleRight(s) == s[3]

\* a / (c * 0.8) > 1.1 in IEEE arithmetic: c = 0 gives Infinity for a > 0 and
\* NaN for a = 0; otherwise a / (0.8 c) > 1.1 iff 100 a > 88 c.
RatioExceeds(a, c) ==
    IF c = 0 THEN a > 0 ELSE 100 * a > 88 * c

\* a > b * 1.1 iff 10 a > 11 b.
Brighter(a, b) == 10 * a > 11 * b

\* The if / else if / else of lines 252-270: the direction the frame votes for.
Vote(s) ==
    IF RatioExceeds(SampleLeft(s), SampleCenter(s)) /\ Brighter(SampleLeft(s), SampleRight(s))
    THEN "left"
    ELSE IF RatioExceeds(SampleRight(s), SampleCenter(s)) /\ Brighter(SampleRight(s), SampleLeft(s))
         THEN "right"
         ELSE "center"

\* Lines 254-256, 260-262, 266-268: the voted counter gains one, the other two
\* lose one with floor 0.
CountVoteNoFloor(c, v) ==
    [d \in Directions |-> IF d = v THEN c[d] + 1 ELSE c[d] - 1]

CountVoteOthersKept(c, v) ==
    [d \in Directions |-> IF d = v THEN c[d] + 1 ELSE c[d]]

CountVote(c, v) ==
    [d \in Directions |-> IF d = v THEN c[d] + 1 ELSE Max2(0, c[d] - 1)]

MaxCount(c) == Max2(c["left"], Max2(c["center"], c["right"]))

\* Off by one in the threshold test, either way.
CommitDueLate(c) == MaxCount(c) > VoteThreshold + 1
CommitDueEarly(c) == MaxCount(c) >= VoteThreshold

\* maxCount > 5 (line 279)
CommitDue(c) == MaxCount(c) > VoteThreshold

\* Lines 280-286 and 289-290: left is tested first, then right, else center.
Winner(c) ==
    IF MaxCount(c) = c["left"] THEN "left"
    ELSE IF MaxCount(c) = c["right"] THEN "right"
    ELSE "center"

\* The winner seeded above the threshold.
ResetCounterAboveThreshold(w) == [d \in Directions |-> IF d = w THEN VoteThreshold + 1 ELSE 0]

\* Lines 291-292.
ResetCounter(w) == [d \in Directions |-> IF d = w THEN ResetBias ELSE 0]

\* Lines 235-239.
TotalBrightness(s) == SampleLeft(s) + SampleCenter(s) + SampleRight(s)

\* The initial 0 taken as no previous frame.
BlinkCrossingWithBaseline(s, prev) == prev # 0 /\ Abs(TotalBrightness(s) - prev) > BlinkDelta

\* Lines 238-239.
BlinkCrossing(s, prev) == Abs(TotalBrightness(s) - prev) > BlinkDelta

\* let eyePositionCounter = { left: 0, right: 0, center: 5 } (line 190)
InitialCounter == [d \in Directions |-> IF d = "center" THEN 5 ELSE 0]

NoVotes == [d \in Directions |-> 0]

\* startEyeTracking, lines 186-192 and 415: a new loop with fresh locals.  It
\* runs when a video starts playing after the camera was turned on (line 493);
\* the loop of an earlier video finds it ended and processes nothing more.
StartEyeTracking ==
    /\ connected /\ webcamActive
    /\ tracking' = TRUE
    /\ videoAttached' = TRUE
    /\ eyePositionCounter' = InitialCounter
    /\ frameSkipCounter' = 0
    /\ prevTotalBrightness' = 0
    /\ newPosition' = "none"
    /\ voteRun' = 0
    /\ seeded' = "center"
    /\ netVotes' = NoVotes
    /\ sample' = NoSample
    /\ UNCHANGED <<now, sessionVars, eyePosition, blinkDetected, blinkVars>>
    /\ StatusEffect
    /\ IntervalEffects

\* processFrame, lines 196-200: two of three animation frames are skipped.
SkipFrame ==
    /\ tracking
    /\ (frameSkipCounter + 1) % FrameSkip # 0
    /\ frameSkipCounter' = (frameSkipCounter + 1) % FrameSkip
    /\ UNCHANGED <<now, sessionVars, eyePosition, blinkDetected, blinkVars,
                   tracking, eyePositionCounter, prevTotalBrightness, newPosition, voteRun,
                   seeded, netVotes, sample, videoAttached>>
    /\ StatusEffect
    /\ IntervalEffects

\* processFrame, lines 196-293, on a frame that is processed, with sample s.
ProcessFrame(s) ==
    LET counted == CountVote(eyePositionCounter, Vote(s))
        crossing == BlinkCrossing(s, prevTotalBrightness)
    IN  /\ tracking
        /\ (frameSkipCounter + 1) % FrameSkip = 0
        /\ frameSkipCounter' = 0
        \* lines 238-243
        /\ blinkDetected' = (blinkDetected \/ crossing)
        /\ blinkTimers' = IF crossing THEN blinkTimers \cup {now + BlinkClearDelay}
                          ELSE blinkTimers
        /\ blinkSetAt' = IF crossing /\ ~blinkDetected THEN now ELSE blinkSetAt
        /\ prevTotalBrightness' = TotalBrightness(s)
        \* lines 252-270
        /\ newPosition' = Vote(s)
        /\ sample' = s
        /\ voteRun' = IF newPosition = Vote(s) THEN Min2(voteRun + 1, MaxRun) ELSE 1
        \* lines 273-293
        /\ IF CommitDue(counted)
           THEN /\ eyePosition' = Winner(counted)
                /\ eyePositionCounter' = ResetCounter(Winner(counted))
                /\ seeded' = Winner(counted)
                /\ netVotes' = NoVotes
           ELSE /\ eyePosition' = eyePosition
                /\ eyePositionCounter' = counted
                /\ seeded' = seeded
                /\ netVotes' = CountVote(netVotes, Vote(s))
        /\ UNCHANGED <<now, sessionVars, tracking, videoAttached>>
        /\ StatusEffect
        /\ IntervalEffects

\* The callback of setTimeout(() => setBlinkDetected(false), 300), line 241.
BlinkTimeout ==
    /\ now \in blinkTimers
    /\ blinkTimers' = blinkTimers \ {now}
    /\ blinkDetected' = FALSE
    /\ UNCHANGED <<now, sessionVars, eyePosition, estVars, blinkSetAt>>
    /\ StatusEffect
    /\ IntervalEffects

(***************************************************************************)
(* EstSpec: the eye tracking loop on its own.  The session is connected    *)
(* with the camera on and the video playing; the clock stands still.       *)
(***************************************************************************)
\* Samples: a left, a right and a centre sample, the boundary sample
\* 99 = 90 * 1.1 (not brighter), a dark frame and a frame with a dark centre.
EstSamples ==
    { <<120, 90, 80>>, <<80, 90, 120>>, <<90, 90, 90>>, <<99, 90, 90>>,
      <<0, 0, 0>>, <<10, 0, 0>> }

SessionInit ==
    /\ now = StartTime
    /\ brainData = NoData
    /\ videoStream = NoStream
    /\ lastErrorTime = 0
    /\ errorCount = 0
    /\ eyePosition = "center"
    /\ blinkDetected = FALSE
    /\ alertness = "awake"
    /\ blinkTimers = {}
    /\ blinkSetAt = 0
    /\ resetsInFlight = 0
    /\ ticks = 0
    /\ jitter = <<0, 0>>
    /\ cycleStartedAt = NoTimer
    /\ pollWaiting = IdlePoll
    /\ connectCall = NoCall
    /\ retryAt = NoTimer
    /\ mounted = TRUE
    /\ gumPending = {}
    /\ liveStreams = {}
    /\ effectStream = NoStream
    /\ streamsMade = 0

\* The effects have run for the state the session starts in; the log is empty
\* and the simulator is as constructed.
EffectsInit ==
    /\ statusCheck = NoStatusCheck
    /\ statusDue = TRUE
    /\ statusAt = StartTime + StatusPeriod
    /\ smoothing = (connected /\ webcamActive /\ brainData # NoData)
    /\ sending = (connected /\ webcamActive)
    /\ sendDue = (connected /\ webcamActive)
    /\ sent = NoData
    /\ errorLog = <<>>
    /\ errorCalls = 0
    /\ sim = NewSimulator
    /\ simCall = NoSimCall

TrackingInit ==
    /\ tracking = TRUE
    /\ videoAttached = TRUE
    /\ eyePositionCounter = InitialCounter
    /\ frameSkipCounter = 0
    /\ prevTotalBrightness = 0
    /\ newPosition = "none"
    /\ voteRun = 0
    /\ seeded = "center"
    /\ netVotes = NoVotes
    /\ sample = NoSample


\* Connected, the poll effect has just run: its interval is set and its
\* initial fetch is to start.
ConnectedInit ==
    /\ connected = TRUE
    /\ poll = IdlePoll
    /\ pollDue = TRUE
    /\ pollAt = StartTime + PollPeriod

EstInit ==
    /\ SessionInit
    /\ ConnectedInit
    /\ webcamActive = TRUE
    /\ TrackingInit
    /\ EffectsInit

EstNext ==
    \/ StartEyeTracking
    \/ SkipFrame
    \/ \E s \in EstSamples : ProcessFrame(s)

EstSpec == EstInit /\ [][EstNext]_vars

\* C1: in the eye tracking loop, from any reachable state of the vote counters,
\* when 6 processed frames in a row have a sample with left > right * 1.1 and
\* left / (center * 0.8) > 1.1 (the frames that vote left), the committed eye
\* direction after the 6th is left.
C1_SixLeftFramesCommitLeft ==
    (newPosition = "left" /\ voteRun >= 6) => eyePosition = "left"

\* The 6th left frame in a row is the one that commits: the loop started at
\* center 5, and the counters have just been reset with the bias to left.
C1_Witness ==
    /\ newPosition = "left" /\ voteRun = 6
    /\ eyePosition = "left"
    /\ eyePositionCounter = ResetCounter("left")
    /\ netVotes = NoVotes

\* C6 as stated: a processed frame changes the reported direction only when
\* the new direction has gathered at least 6 votes net of decay.
C6_ChangeNeedsSixVotes ==
    [][eyePosition' # eyePosition =>
         CountVote(netVotes, newPosition')[eyePosition'] >= 6]_vars

\* C6 as amended: a processed frame that changes the reported direction votes
\* for the new direction, no frame of the loop voted otherwise just before it,
\* and unless the new direction is the one the counters were last seeded for
\* (center when the loop starts) it has gathered 6 votes net of decay.
C6_Debounced ==
    [][eyePosition' # eyePosition =>
         /\ newPosition' = eyePosition'
         /\ newPosition \in {"none", newPosition'}
         /\ (eyePosition' # seeded =>
                CountVote(netVotes, newPosition')[eyePosition'] >= 6)]_vars

\* The direction was changed to right by a commit that followed a left commit
\* of the same loop.
C6_Witness ==
    /\ eyePosition = "right" /\ seeded = "right"
    /\ newPosition = "right" /\ voteRun = 6
    /\ eyePositionCounter = ResetCounter("right")

(***************************************************************************)
(* BlinkSpec: the eye tracking loop with the clock.  Frames are processed  *)
(* at any time; a blink timer fires when the clock reaches its time.       *)
(***************************************************************************)
\* A bright and a dim frame (both vote center): their totals differ by 30.
BlinkSamples == { <<90, 90, 90>>, <<80, 80, 80>> }

\* The timers that are due fire before the clock moves on.
NoTimerDue == \A t \in blinkTimers : t > now

NextTimer(limit) ==
    IF \E t \in blinkTimers : t < limit
    THEN CHOOSE t \in blinkTimers : \A u \in blinkTimers : t <= u
    ELSE limit

BlinkClock ==
    /\ now < StartTime + MaxBlinkTime
    /\ NoTimerDue
    /\ now' = NextTimer(now + ClockStep)
    /\ UNCHANGED <<sessionVars, eyePosition, blinkDetected, estVars, blinkVars>>
    /\ StatusEffect
    /\ IntervalEffects

BlinkInit == EstInit

BlinkNext ==
    \/ SkipFrame
    \/ \E s \in BlinkSamples : ProcessFrame(s)
    \/ BlinkTimeout
    \/ BlinkClock

BlinkSpec == BlinkInit /\ [][BlinkNext]_vars

\* C5: once a brightness crossing has set the blink flag, the flag is cleared
\* exactly 300 ms after that set and not earlier, whatever later frames do.
C5_ClearedExactly300msAfterSet ==
    [][(blinkDetected /\ ~blinkDetected') => now = blinkSetAt + 300]_vars

(***************************************************************************)
(* The data poll: the effect of lines 95-176 and handleReset.              *)
(*                                                                         *)
(* One fetchBothData cycle is in flight at a time.  Its closure belongs to *)
(* the effect run that started it, so it reads errorCount and              *)
(* lastErrorTime as they were when the cycle started; the functional       *)
(* update setErrorCount(prev => prev + 1) reads the current state.  The    *)
(* effect runs again whenever connected, errorCount or lastErrorTime has   *)
(* changed: it clears the interval and, if connected, starts a cycle at    *)
(* once and sets a new interval.                                           *)
(***************************************************************************)
\* The dependency array [connected, errorCount, lastErrorTime] of line 176.
PollDepsChange ==
    \/ connected' # connected
    \/ errorCount' # errorCount
    \/ lastErrorTime' # lastErrorTime

\* Lines 96 and 172-175, after a step that may have changed the dependencies.
PollEffect ==
    /\ pollDue' = IF ~connected' THEN FALSE
                  ELSE IF PollDepsChange THEN TRUE ELSE pollDue
    /\ pollAt' = IF ~connected' THEN NoTimer
                 ELSE IF PollDepsChange THEN now + PollPeriod ELSE pollAt

\* The conversion of lines 117-123 from the /api/mental_state shape.
FromMentalStateSwapped(m) ==
    [left |-> m.right_brain_activity,
     right |-> m.left_brain_activity,
     state |-> m.state,
     blink |-> m.blink_detected,
     eye_position |-> IF m.eye_position = "" THEN "center" ELSE m.eye_position]

FromMentalState(m) ==
    [left |-> m.left_brain_activity,
     right |-> m.right_brain_activity,
     state |-> m.state,
     blink |-> m.blink_detected,
     eye_position |-> IF m.eye_position = "" THEN "center" ELSE m.eye_position]

\* fetchBothData (lines 167-170) starts, from the effect (line 172) or from
\* its interval (line 173): fetchData sends GET /api/data (line 101).
PollStart ==
    /\ connected
    /\ poll.pc = "idle"
    /\ pollDue \/ now = pollAt
    /\ poll' = [pc |-> "data", errorCount |-> errorCount,
                lastErrorTime |-> lastErrorTime, asked |-> <<"/api/data">>,
                got |-> NoResponse]
    /\ pollDue' = FALSE
    /\ pollAt' = IF now = pollAt THEN now + PollPeriod ELSE pollAt
    /\ cycleStartedAt' = now
    /\ UNCHANGED <<now, connected, brainData, webcamActive, videoStream, lastErrorTime,
                   errorCount, alertness, resetsInFlight, ticks, jitter, pollWaiting,
                   eyePosition, blinkDetected, estVars, blinkVars, connVars, camVars,
                   statusCheck, sent, logVars, simVars>>
    /\ StatusEffect
    /\ IntervalEffects

\* fetchData goes on to fetchEyeData (line 169), which sends GET /api/eye_data.
SkipEyeData(r) ==
    [IdlePoll EXCEPT !.got = r]

ToEyeData(r) ==
    [poll EXCEPT !.pc = "eye", !.asked = Append(@, "/api/eye_data"), !.got = r]

\* The answer to GET /api/data with a check of connected before the adoption.
PollDataResponseIfConnected(r) ==
    /\ poll.pc = "data"
    /\ r.kind = "throws" => errorCount < MaxErrors
    /\ brainData' = IF r.kind = "ok" /\ connected THEN r.data ELSE brainData
    /\ errorCount' = IF r.kind = "ok" THEN 0
                     ELSE IF r.kind = "throws" THEN errorCount + 1
                     ELSE errorCount
    /\ poll' = IF r.kind \in {"ok", "throws"} THEN ToEyeData(r)
               ELSE [poll EXCEPT !.pc = "mental", !.got = r,
                                 !.asked = Append(@, "/api/mental_state")]
    /\ UNCHANGED <<now, connected, webcamActive, videoStream, lastErrorTime,
                   alertness, resetsInFlight, ticks, jitter, cycleStartedAt, pollWaiting,
                   eyePosition, blinkDetected, estVars, blinkVars, connVars, camVars,
                   statusCheck, sent, logVars, simVars>>
    /\ PollEffect
    /\ StatusEffect
    /\ IntervalEffects

\* Lines 101-109 and the catch of lines 142-145: the answer to GET /api/data.
\* r.kind is "ok" (response.ok with a body without error), "error_flagged",
\* "not_ok", or "throws" (fetch or response.json() throws).
PollDataResponse(r) ==
    /\ poll.pc = "data"
    /\ r.kind = "throws" => errorCount < MaxErrors
    /\ brainData' = IF r.kind = "ok" THEN r.data ELSE brainData
    /\ errorCount' = IF r.kind = "ok" THEN 0
                     ELSE IF r.kind = "throws" THEN errorCount + 1
                     ELSE errorCount
    /\ poll' = IF r.kind \in {"ok", "throws"} THEN ToEyeData(r)
               ELSE [poll EXCEPT !.pc = "mental", !.got = r,
                                 !.asked = Append(@, "/api/mental_state")]
    /\ UNCHANGED <<now, connected, webcamActive, videoStream, lastErrorTime,
                   alertness, resetsInFlight, ticks, jitter, cycleStartedAt, pollWaiting,
                   eyePosition, blinkDetected, estVars, blinkVars, connVars, camVars,
                   statusCheck, sent, logVars, simVars>>
    /\ PollEffect
    /\ StatusEffect
    /\ IntervalEffects

\* The comparison with >= in place of >.
FailureCountedInclusive == now - poll.lastErrorTime >= ErrorWindow

\* Lines 130-135: a failure is counted when more than 5000 ms have passed
\* since the lastErrorTime the closure holds.
FailureCounted == now - poll.lastErrorTime > ErrorWindow

\* Lines 137-141: the closure's errorCount decides the reset.
ResetDue == poll.errorCount > ErrorLimit

\* Lines 112-141 and the catch of lines 142-145: the answer to
\* GET /api/mental_state.  r.kind is "ok" (response.ok with success and data),
\* "no_success", "not_ok" or "throws".
PollMentalResponse(r) ==
    LET failed == r.kind \in {"no_success", "not_ok"}
    IN  /\ poll.pc = "mental"
        /\ (r.kind = "throws" \/ (failed /\ FailureCounted)) => errorCount < MaxErrors
        /\ (failed /\ ResetDue) => resetsInFlight < MaxResets
        /\ brainData' = IF r.kind = "ok" THEN FromMentalState(r.data) ELSE brainData
        /\ errorCount' = IF r.kind = "ok" THEN 0
                         ELSE IF r.kind = "throws" \/ FailureCounted THEN errorCount + 1
                         ELSE errorCount
        /\ lastErrorTime' = IF failed /\ FailureCounted THEN now ELSE lastErrorTime
        /\ resetsInFlight' = IF failed /\ ResetDue THEN resetsInFlight + 1
                             ELSE resetsInFlight
        /\ poll' = ToEyeData(r)
        /\ UNCHANGED <<now, connected, webcamActive, videoStream, alertness, ticks, jitter, cycleStartedAt, pollWaiting,
                       eyePosition, blinkDetected, estVars, blinkVars, connVars, camVars,
                       statusCheck, sent, logVars, simVars>>
        /\ PollEffect
        /\ StatusEffect
        /\ IntervalEffects

\* fetchEyeData, lines 148-165: the answer to GET /api/eye_data.  r.kind is
\* "ok" (response.ok with success and data), "no_success", "not_ok" or "throws".
PollEyeResponse(r) ==
    /\ poll.pc = "eye"
    /\ eyePosition' = IF r.kind = "ok" THEN r.data.eye_position ELSE eyePosition
    /\ blinkDetected' = IF r.kind = "ok" THEN r.data.blink ELSE blinkDetected
    /\ alertness' = IF r.kind # "ok" THEN alertness
                    ELSE IF r.data.alertness = "" THEN "awake" ELSE r.data.alertness
    /\ poll' = IdlePoll
    /\ UNCHANGED <<now, connected, brainData, webcamActive, videoStream, lastErrorTime,
                   errorCount, pollDue, pollAt, resetsInFlight, ticks, jitter, cycleStartedAt, pollWaiting,
                   estVars, blinkVars, connVars, camVars,
                   statusCheck, sent, logVars, simVars>>
    /\ StatusEffect
    /\ IntervalEffects

\* The button Emergency Reset (line 805): handleReset sends its requests.
HandleResetClick ==
    /\ resetsInFlight < MaxResets
    /\ resetsInFlight' = resetsInFlight + 1
    /\ UNCHANGED <<now, connected, brainData, webcamActive, videoStream, lastErrorTime,
                   errorCount, alertness, poll, pollDue, pollAt, ticks, jitter, cycleStartedAt, pollWaiting,
                   eyePosition, blinkDetected, estVars, blinkVars, connVars, camVars,
                   statusCheck, sent, logVars, simVars>>
    /\ StatusEffect
    /\ IntervalEffects

\* handleReset without the assignments of its catch block.
HandleResetDoneUnlessThrown(threw) ==
    /\ resetsInFlight > 0
    /\ resetsInFlight' = resetsInFlight - 1
    /\ connected' = (threw /\ connected)
    /\ brainData' = IF threw THEN brainData ELSE NoData
    /\ errorCount' = IF threw THEN errorCount ELSE 0
    /\ tracking' = FALSE
    /\ videoAttached' = FALSE
    /\ UNCHANGED <<now, webcamActive, videoStream, lastErrorTime, alertness, poll, ticks, jitter, cycleStartedAt, pollWaiting,
                   eyePosition, blinkDetected, eyePositionCounter, frameSkipCounter,
                   prevTotalBrightness, newPosition, voteRun, seeded, netVotes, sample, blinkVars, connVars, camVars,
                   statusCheck, sent, logVars, simVars>>
    /\ PollEffect
    /\ StatusEffect
    /\ IntervalEffects

\* handleReset, lines 670-687, once its requests are answered or one of them
\* throws: lines 677-679 and lines 683-685 set the same state.  The video
\* element is rendered only while connected (line 815), so the tracking loop
\* processes no more frames (line 202).
HandleResetDone(threw) ==
    /\ resetsInFlight > 0
    /\ resetsInFlight' = resetsInFlight - 1
    /\ connected' = FALSE
    /\ brainData' = NoData
    /\ errorCount' = 0
    /\ tracking' = FALSE
    /\ videoAttached' = FALSE
    /\ UNCHANGED <<now, webcamActive, videoStream, lastErrorTime, alertness, poll, ticks, jitter, cycleStartedAt, pollWaiting,
                   eyePosition, blinkDetected, eyePositionCounter, frameSkipCounter,
                   prevTotalBrightness, newPosition, voteRun, seeded, netVotes, sample, blinkVars, connVars, camVars,
                   statusCheck, sent, logVars, simVars>>
    /\ PollEffect
    /\ StatusEffect
    /\ IntervalEffects

\* The clock moves to the next firing of the poll interval.
PollClock(limit) ==
    /\ connected
    /\ poll.pc = "idle" /\ ~pollDue
    /\ pollAt > now
    /\ pollAt <= StartTime + limit
    /\ now' = pollAt
    /\ UNCHANGED <<connected, brainData, webcamActive, videoStream, lastErrorTime,
                   errorCount, alertness, poll, pollDue, pollAt, resetsInFlight,
                   ticks, jitter, cycleStartedAt, pollWaiting, eyePosition, blinkDetected, estVars, blinkVars, connVars, camVars,
                   statusCheck, sent, logVars, simVars>>
    /\ StatusEffect
    /\ IntervalEffects

(***************************************************************************)
(* The activity smoother: updateBrainValues, lines 419-468.                *)
(***************************************************************************)
\* x + (target - x) * 0.2 and x + (target - x) * 0.1 (lines 430, 434, 440, 441)
PullToSlow(x, target, tenths) == x + ((target - x) * tenths) \div 20

PullTo(x, target, tenths) == x + ((target - x) * tenths) \div 10

\* x - (x - target) * 0.2 (lines 431, 435)
PullDown(x, target, tenths) == x - ((x - target) * tenths) \div 10

\* Lines 428-442: the new values before the jitter.
SmoothedLeft(d, l) ==
    IF d = "left" THEN PullDown(l, LowTarget, 2)
    ELSE IF d = "right" THEN PullTo(l, HighTarget, 2)
    ELSE PullTo(l, CenterLeftTarget, 1)

SmoothedRight(d, r) ==
    IF d = "left" THEN PullTo(r, HighTarget, 2)
    ELSE IF d = "right" THEN PullDown(r, LowTarget, 2)
    ELSE PullTo(r, CenterRightTarget, 1)

\* The upper limit forgotten.
ClampFromBelow(x) == Max2(MinActivity, x)

\* Math.max(0.1, Math.min(0.95, x)) (lines 449-450)
Clamp(x) == Max2(MinActivity, Min2(MaxActivity, x))

\* A threshold of 0.02 in place of 0.001.
RealChangeCoarse(new, old) == Abs(new - old) > 20

\* Math.abs(new - old) > 0.001 (lines 453-454)
RealChange(new, old) == Abs(new - old) > 1

\* The factor 1.2 forgotten.
StateLabelNoFactor(l, r) ==
    IF l > r THEN "analytical"
    ELSE IF r > l THEN "creative"
    ELSE "balanced"

\* Lines 459-460: l > r * 1.2, r > l * 1.2.
StateLabel(l, r) ==
    IF 10 * l > 12 * r THEN "analytical"
    ELSE IF 10 * r > 12 * l THEN "creative"
    ELSE "balanced"

\* The jitter values tried: the two ends of the range and none.
JitterSet == {-MaxJitter, 0, MaxJitter}

\* updateBrainValues, lines 422-463, run by the interval of line 466; its
\* closure holds the brainData and eyePosition of the last run of the effect,
\* which are the current ones (line 468).
UpdateBrainValues(jl, jr) ==
    LET newLeftValue == Clamp(SmoothedLeft(eyePosition, brainData.left) + jl)
        newRightValue == Clamp(SmoothedRight(eyePosition, brainData.right) + jr)
    IN  /\ smoothing
        /\ ticks' = Min2(ticks + 1, MaxTicks)
        /\ brainData' =
              IF RealChange(newLeftValue, brainData.left)
                 \/ RealChange(newRightValue, brainData.right)
              THEN [brainData EXCEPT !.left = newLeftValue,
                                     !.right = newRightValue,
                                     !.state = StateLabel(newLeftValue, newRightValue)]
              ELSE brainData
        /\ UNCHANGED <<now, connected, webcamActive, videoStream, lastErrorTime, errorCount,
                       alertness, pollVars, cycleStartedAt, pollWaiting, eyePosition, blinkDetected, estVars, blinkVars, connVars, camVars,
                       statusCheck, sent, logVars, simVars>>
        /\ StatusEffect
        /\ IntervalEffects

InRange(b) ==
    /\ b.left >= 100 /\ b.left <= 950
    /\ b.right >= 100 /\ b.right <= 950

(***************************************************************************)
(* SmoothSpec: the smoother with the polls that feed it.  The session is   *)
(* connected with the camera on; the remote answers the data poll with a   *)
(* payload (in range or not) and the eye poll with a direction.            *)
(***************************************************************************)
Payload(l, r) ==
    [left |-> l, right |-> r, state |-> "balanced", blink |-> FALSE,
     eye_position |-> "center"]

MentalPayload(l, r) ==
    [left_brain_activity |-> l, right_brain_activity |-> r, state |-> "balanced",
     blink_detected |-> FALSE, eye_position |-> ""]

EyePayload(d, b, a) == [eye_position |-> d, blink |-> b, alertness |-> a]

Response(k, d) == [kind |-> k, data |-> d]

SmoothDataResponses ==
    { Response("ok", Payload(600, 650)), Response("ok", Payload(980, 40)),
      Response("not_ok", NoData) }

SmoothMentalResponses == { Response("ok", MentalPayload(300, 800)) }

SmoothEyeResponses == { Response("ok", EyePayload(d, FALSE, "")) : d \in Directions }

NotTrackingInit ==
    /\ tracking = FALSE
    /\ videoAttached = FALSE
    /\ eyePositionCounter = InitialCounter
    /\ frameSkipCounter = 0
    /\ prevTotalBrightness = 0
    /\ newPosition = "none"
    /\ voteRun = 0
    /\ seeded = "center"
    /\ netVotes = NoVotes
    /\ sample = NoSample

SmoothInit ==
    /\ SessionInit
    /\ ConnectedInit
    /\ webcamActive = TRUE
    /\ NotTrackingInit
    /\ EffectsInit

SmoothTick(jl, jr) ==
    /\ ticks < MaxTicks
    /\ UpdateBrainValues(jl, jr)
    /\ jitter' = <<jl, jr>>

SmoothNext ==
    \/ PollStart
    \/ \E r \in SmoothDataResponses : PollDataResponse(r)
    \/ \E r \in SmoothMentalResponses : PollMentalResponse(r)
    \/ \E r \in SmoothEyeResponses : PollEyeResponse(r)
    \/ PollClock(MaxSmoothTime)
    \/ \E jl, jr \in JitterSet : SmoothTick(jl, jr)

SmoothSpec == SmoothInit /\ [][SmoothNext]_vars

\* C2 as stated: once smoothing ticks have run, the scalars held in brainData
\* are within [0.1, 0.95].
C2_InRangeAfterTicks ==
    (ticks > 0 /\ brainData # NoData) => InRange(brainData)

\* C2 as amended: a smoothing tick that updates brainData stores scalars
\* within [0.1, 0.95], for every direction and jitter.
C2_TickStoresInRange ==
    [][(ticks' # ticks /\ brainData' # brainData) => InRange(brainData')]_vars

\* A tick has clamped a scalar that the remote had reported out of range.
C2_Witness ==
    /\ ticks > 0 /\ brainData # NoData
    /\ brainData.right = 100
    /\ brainData.left <= 950

(***************************************************************************)
(* PollSpec: the data poll of a connected session against a remote that    *)
(* answers each request in any of the ways the code tells apart.           *)
(***************************************************************************)
PollDataResponses ==
    { Response("ok", Payload(600, 650)), Response("error_flagged", NoData),
      Response("not_ok", NoData), Response("throws", NoData) }

PollMentalResponses ==
    { Response("ok", MentalPayload(300, 800)), Response("no_success", NoData),
      Response("not_ok", NoData), Response("throws", NoData) }

PollEyeResponses ==
    { Response("ok", EyePayload("left", TRUE, "sleepy")), Response("not_ok", NoData),
      Response("throws", NoData) }

PollInit ==
    /\ SessionInit
    /\ ConnectedInit
    /\ webcamActive = FALSE
    /\ NotTrackingInit
    /\ EffectsInit

PollNext ==
    \/ PollStart
    \/ \E r \in PollDataResponses : PollDataResponse(r)
    \/ \E r \in PollMentalResponses : PollMentalResponse(r)
    \/ \E r \in PollEyeResponses : PollEyeResponse(r)
    \/ PollClock(MaxPollTime)
    \/ HandleResetClick
    \/ \E threw \in BOOLEAN : HandleResetDone(threw)

PollSpec == PollInit /\ [][PollNext]_vars

\* C3: whatever the kind of failure, errorCount is incremented at most once
\* within any window of 5 seconds.  errorCount is 0 at StartTime and is only
\* incremented by 1 or reset to 0, so that it is then at most 1 plus the number
\* of whole windows that have passed.
C3_OneCountPerWindow ==
    errorCount <= 1 + (now - StartTime) \div 5000

\* C4: a data poll that fails, in whatever way, while errorCount exceeds 5
\* calls handleReset.
C4_ResetOnceOverLimit ==
    [][(/\ poll.pc \in {"data", "mental"}
        /\ poll'.pc = "eye"
        /\ poll'.got.kind # "ok"
        /\ errorCount > 5) => resetsInFlight' = resetsInFlight + 1]_vars

\* C10: a cycle asks GET /api/data first; an ok answer without error field is
\* adopted as it is, errorCount becomes 0, and neither the failure time nor a
\* reset is touched, and /api/mental_state is not asked; /api/mental_state is
\* asked exactly when the first answer was not ok or carried an error; its ok
\* answer is adopted in the shape of the first endpoint, errorCount becomes 0
\* and neither the failure time nor a reset is touched.
C10_PrimaryThenSecondary ==
    [][/\ (poll.pc = "idle" /\ poll'.pc # "idle") => poll'.asked = <<"/api/data">>
       /\ (poll.pc = "data" /\ poll'.pc # "data") =>
              /\ (poll'.pc = "mental") <=> (poll'.got.kind \in {"error_flagged", "not_ok"})
              /\ (poll'.pc = "mental") =>
                     /\ poll'.asked = <<"/api/data", "/api/mental_state">>
                     /\ brainData' = brainData
              /\ (poll'.got.kind = "ok") =>
                     /\ brainData' = poll'.got.data
                     /\ errorCount' = 0
                     /\ lastErrorTime' = lastErrorTime
                     /\ resetsInFlight' = resetsInFlight
                     /\ poll'.asked = <<"/api/data", "/api/eye_data">>
       /\ (poll.pc = "mental" /\ poll'.pc # "mental" /\ poll'.got.kind = "ok") =>
              /\ brainData' = [left |-> poll'.got.data.left_brain_activity,
                               right |-> poll'.got.data.right_brain_activity,
                               state |-> poll'.got.data.state,
                               blink |-> poll'.got.data.blink_detected,
                               eye_position |-> "center"]
              /\ poll'.got.data.eye_position = ""
              /\ errorCount' = 0
              /\ lastErrorTime' = lastErrorTime
              /\ resetsInFlight' = resetsInFlight]_vars

\* C10 happens: after a counted failure, a cycle whose first request failed
\* has adopted the answer of /api/mental_state and errorCount is back at 0.
C10_Witness ==
    /\ poll.pc = "eye"
    /\ poll.asked = <<"/api/data", "/api/mental_state", "/api/eye_data">>
    /\ poll.got.kind = "ok"
    /\ poll.errorCount = 1
    /\ lastErrorTime = StartTime
    /\ errorCount = 0
    /\ brainData = [left |-> 300, right |-> 800, state |-> "balanced",
                    blink |-> FALSE, eye_position |-> "center"]

\* C11: whichever way fetchData fails, the cycle goes on to ask GET
\* /api/eye_data, and the answer to it either leaves eye position, blink and
\* alertness as they are or stores the ones it carries; no answer to GET
\* /api/eye_data changes brainData, errorCount, lastErrorTime or connected.
C11_FailuresDoNotBlock ==
    [][/\ (poll.pc = "data" /\ poll'.pc # "data") =>
              \/ poll'.pc = "mental"
              \/ /\ poll'.pc = "eye"
                 /\ poll'.asked = Append(poll.asked, "/api/eye_data")
       /\ (poll.pc = "mental" /\ poll'.pc # "mental") =>
              /\ poll'.pc = "eye"
              /\ poll'.asked = Append(poll.asked, "/api/eye_data")
       /\ (poll.pc = "eye" /\ poll'.pc # "eye") =>
              /\ brainData' = brainData
              /\ errorCount' = errorCount
              /\ lastErrorTime' = lastErrorTime
              /\ connected' = connected
              /\ \/ <<eyePosition', blinkDetected', alertness'>>
                        = <<eyePosition, blinkDetected, alertness>>
                 \/ <<eyePosition', blinkDetected', alertness'>>
                        = <<"left", TRUE, "sleepy">>]_vars

\* C11 happens: every cycle so far has failed, the first of them was counted,
\* and the eye data of a cycle has been stored all the same.
C11_Witness ==
    /\ poll.pc = "idle"
    /\ brainData = NoData
    /\ errorCount = 1
    /\ lastErrorTime = StartTime
    /\ eyePosition = "left"
    /\ blinkDetected
    /\ alertness = "sleepy"

(***************************************************************************)
(* LeftSpec: the smoother alone, from the activity {left: 0.6, right:      *)
(* 0.65}, with the eye direction left on every tick.                       *)
(***************************************************************************)
\* The jitter values tried here: the ends of the range, the middle of each
\* half, and none.
LeftJitterSet == {-MaxJitter, -(MaxJitter \div 2), 0, MaxJitter \div 2, MaxJitter}

LeftInit ==
    /\ now = StartTime
    /\ connected = TRUE
    /\ webcamActive = TRUE
    /\ brainData = Payload(600, 650)
    /\ videoStream = NoStream
    /\ lastErrorTime = 0
    /\ errorCount = 0
    /\ eyePosition = "left"
    /\ blinkDetected = FALSE
    /\ alertness = "awake"
    /\ blinkTimers = {}
    /\ blinkSetAt = 0
    /\ resetsInFlight = 0
    /\ ticks = 0
    /\ jitter = <<0, 0>>
    /\ cycleStartedAt = NoTimer
    /\ pollWaiting = IdlePoll
    /\ connectCall = NoCall
    /\ retryAt = NoTimer
    /\ mounted = TRUE
    /\ gumPending = {}
    /\ liveStreams = {}
    /\ effectStream = NoStream
    /\ streamsMade = 0
    /\ poll = IdlePoll
    /\ pollDue = FALSE
    /\ pollAt = StartTime + PollPeriod
    /\ NotTrackingInit
    /\ EffectsInit

LeftNext ==
    \E jl, jr \in LeftJitterSet :
        /\ UpdateBrainValues(jl, jr)
        /\ UNCHANGED jitter

LeftSpec == LeftInit /\ [][LeftNext]_vars

\* C7 as stated: with the direction left on every tick, from {0.6, 0.65},
\* right never decreases from one tick to the next on its way to 0.9.
C7_RightNeverDecreases ==
    [][brainData'.right >= brainData.right]_vars

\* C7 as amended: right increases on every tick while it is below 0.81 and
\* from then on stays within [0.81, 0.95]; left decreases on every tick while
\* it is above 0.29 and from then on stays within [0.12, 0.29].
C7_ApproachesWithinJitter ==
    [][/\ brainData.right < 810 => brainData'.right > brainData.right
       /\ brainData.right >= 810 => (brainData'.right >= 810 /\ brainData'.right <= 950)
       /\ brainData.left > 290 => brainData'.left < brainData.left
       /\ brainData.left <= 290 => (brainData'.left >= 120 /\ brainData'.left <= 290)]_vars

\* Both scalars have reached their bands, right at the clamp.
C7_Witness ==
    /\ ticks > 0
    /\ brainData.right = 950
    /\ brainData.left >= 120 /\ brainData.left <= 290
    /\ brainData.state = "creative"


(***************************************************************************)
(* Connecting: handleConnect, lines 626-667.  A call is an async function  *)
(* whose closure holds connected and webcamActive of the render it was     *)
(* created in; connectCall.pc tells at which await it stands.  The retry   *)
(* of line 657 hands the same closure to setTimeout, so that the retry     *)
(* takes the branch the first call took.                                   *)
(***************************************************************************)
\* The assignments of lines 677-679, the same as those of lines 683-685.
\* Without a connection the video element is not rendered (line 815).
ResetState ==
    /\ connected' = FALSE
    /\ brainData' = NoData
    /\ errorCount' = 0
    /\ tracking' = FALSE
    /\ videoAttached' = FALSE

\* The button Connect / Disconnect (line 782), lines 627-632 and 641-646:
\* the call sends POST /api/disconnect or POST /api/connect.
HandleConnectClick ==
    /\ mounted
    /\ connectCall.pc = "idle"
    /\ connectCall' = [pc |-> IF connected THEN "disconnecting" ELSE "connecting",
                       retries |-> 0]
    /\ UNCHANGED <<now, sessionVarsButConn, retryAt, camVars, eyePosition, blinkDetected,
                   estVars, blinkVars,
                   statusCheck, sent, logVars, simVars>>
    /\ StatusEffect
    /\ IntervalEffects

\* Lines 633-639: the answer to POST /api/disconnect, or its failure.
DisconnectResponse(threw) ==
    /\ connectCall.pc = "disconnecting"
    /\ connectCall' = [connectCall EXCEPT !.pc = "idle"]
    /\ connected' = FALSE
    /\ brainData' = NoData
    /\ tracking' = FALSE
    /\ videoAttached' = FALSE
    /\ UNCHANGED <<now, webcamActive, videoStream, lastErrorTime, errorCount, alertness,
                   poll, resetsInFlight, ticks, jitter, cycleStartedAt, pollWaiting, retryAt, camVars, eyePosition,
                   blinkDetected, eyePositionCounter, frameSkipCounter,
                   prevTotalBrightness, newPosition, voteRun, seeded, netVotes, sample,
                   blinkVars,
                   statusCheck, sent, logVars, simVars>>
    /\ PollEffect
    /\ StatusEffect
    /\ IntervalEffects

\* Lines 647-665: the answer to POST /api/connect.  kind is "ok",
\* "already_connected", "other_error" or "throws".  On "already_connected"
\* the call awaits handleReset (line 656).
ConnectResponse(kind) ==
    /\ connectCall.pc = "connecting"
    /\ connectCall' = [connectCall EXCEPT
                          !.pc = IF kind = "already_connected" THEN "resetting"
                                 ELSE "idle"]
    /\ connected' = IF kind = "ok" THEN TRUE ELSE connected
    /\ errorCount' = IF kind = "ok" THEN 0 ELSE errorCount
    /\ UNCHANGED <<now, brainData, webcamActive, videoStream, lastErrorTime, alertness,
                   poll, resetsInFlight, ticks, jitter, cycleStartedAt, pollWaiting, retryAt, camVars, eyePosition,
                   blinkDetected, estVars, blinkVars,
                   statusCheck, sent, logVars, simVars>>
    /\ PollEffect
    /\ StatusEffect
    /\ IntervalEffects

\* Lines 656-657: the handleReset that handleConnect awaits has set the state
\* (whether or not one of its requests threw), and handleConnect schedules
\* itself 1000 ms later.
ConnectResetDone(threw) ==
    /\ connectCall.pc = "resetting"
    /\ ResetState
    /\ connectCall' = [pc |-> "waiting", retries |-> connectCall.retries + 1]
    /\ retryAt' = now + RetryDelay
    /\ UNCHANGED <<now, webcamActive, videoStream, lastErrorTime, alertness, poll,
                   resetsInFlight, ticks, jitter, cycleStartedAt, pollWaiting, camVars, eyePosition, blinkDetected,
                   eyePositionCounter, frameSkipCounter, prevTotalBrightness,
                   newPosition, voteRun, seeded, netVotes, sample, blinkVars,
                   statusCheck, sent, logVars, simVars>>
    /\ PollEffect
    /\ StatusEffect
    /\ IntervalEffects

\* The timer of line 657 fires: the handleConnect of the first call runs
\* again, with connected false in its closure, and sends POST /api/connect.
RetryTimeout ==
    /\ connectCall.pc = "waiting"
    /\ now = retryAt
    /\ connectCall' = [connectCall EXCEPT !.pc = "connecting"]
    /\ retryAt' = NoTimer
    /\ UNCHANGED <<now, sessionVarsButConn, camVars, eyePosition, blinkDetected,
                   estVars, blinkVars,
                   statusCheck, sent, logVars, simVars>>
    /\ StatusEffect
    /\ IntervalEffects

\* The clock moves to the firing of the retry timer.
RetryClock(limit) ==
    /\ connectCall.pc = "waiting"
    /\ now < retryAt
    /\ retryAt <= StartTime + limit
    /\ now' = retryAt
    /\ UNCHANGED <<sessionVarsButConn, connVars, camVars, eyePosition, blinkDetected,
                   estVars, blinkVars,
                   statusCheck, sent, logVars, simVars>>
    /\ StatusEffect
    /\ IntervalEffects


(***************************************************************************)
(* ConnSpec: connecting, disconnecting and the emergency reset of a        *)
(* session against a remote that answers POST /api/connect in any of the   *)
(* ways the code tells apart.                                              *)
(***************************************************************************)
ConnectResponses == {"ok", "already_connected", "other_error", "throws"}

NotConnectedInit ==
    /\ connected = FALSE
    /\ poll = IdlePoll
    /\ pollDue = FALSE
    /\ pollAt = NoTimer

ConnInit ==
    /\ SessionInit
    /\ NotConnectedInit
    /\ webcamActive = FALSE
    /\ NotTrackingInit
    /\ EffectsInit

ConnNext ==
    \/ HandleConnectClick
    \/ \E kind \in ConnectResponses : ConnectResponse(kind)
    \/ \E threw \in BOOLEAN : ConnectResetDone(threw)
    \/ RetryTimeout
    \/ RetryClock(MaxConnTime)
    \/ \E threw \in BOOLEAN : DisconnectResponse(threw)
    \/ HandleResetClick
    \/ \E threw \in BOOLEAN : HandleResetDone(threw)

ConnSpec == ConnInit /\ [][ConnNext]_vars

\* C8: after 'already_connected' handleConnect resets and retries the connect
\* exactly once: the chain of one click never schedules a second retry.
C8_RetriesOnce ==
    connectCall.retries <= 1

(***************************************************************************)
(* The camera: the webcam effect of lines 471-521, whose dependency array  *)
(* is [webcamActive].  Its closure, and that of its cleanup, hold the      *)
(* videoStream of the render in which the effect ran (effectStream).  A    *)
(* stream is named by the number of the getUserMedia request it answers.   *)
(***************************************************************************)
\* Lines 471-521 after a render in which webcamActive has changed: the cleanup
\* of the previous run (lines 516-520), then the body (lines 472-514).  Without
\* the flag the video element is not rendered (line 822), so that the tracking
\* loop processes no more frames (line 202).
WebcamEffect ==
    LET afterCleanup == liveStreams \ {effectStream}
        starts == webcamActive' /\ videoStream = NoStream
        stops == ~webcamActive' /\ videoStream # NoStream
    IN  /\ starts => streamsMade < MaxStreams
        /\ gumPending' = IF starts THEN gumPending \cup {streamsMade + 1} ELSE gumPending
        /\ streamsMade' = IF starts THEN streamsMade + 1 ELSE streamsMade
        /\ liveStreams' = IF stops THEN afterCleanup \ {videoStream} ELSE afterCleanup
        /\ videoStream' = IF stops THEN NoStream ELSE videoStream
        /\ effectStream' = videoStream
        /\ tracking' = IF webcamActive' THEN tracking ELSE FALSE
        /\ videoAttached' = IF webcamActive' THEN videoAttached ELSE FALSE

\* The buttons Turn On / Turn Off Camera (line 795) and Enable Camera (line 876).
ToggleWebcam ==
    /\ mounted
    /\ webcamActive' = ~webcamActive
    /\ WebcamEffect
    /\ UNCHANGED <<now, connected, brainData, lastErrorTime, errorCount, alertness,
                   pollVars, ticks, jitter, cycleStartedAt, pollWaiting, connVars, mounted, eyePosition, blinkDetected,
                   eyePositionCounter, frameSkipCounter, prevTotalBrightness,
                   newPosition, voteRun, seeded, netVotes, sample, blinkVars,
                   statusCheck, sent, logVars, simVars>>
    /\ StatusEffect
    /\ IntervalEffects

\* getUserMedia resolves and the stream is attached without the test of line 487.
GumResolveAttachesAnyway(id) ==
    /\ id \in gumPending
    /\ gumPending' = gumPending \ {id}
    /\ liveStreams' = liveStreams \cup {id}
    /\ videoStream' = IF mounted THEN id ELSE videoStream
    /\ videoAttached' = IF mounted THEN TRUE ELSE videoAttached
    /\ UNCHANGED <<now, connected, brainData, webcamActive, lastErrorTime, errorCount,
                   alertness, pollVars, ticks, jitter, cycleStartedAt, pollWaiting, connVars, mounted, effectStream,
                   streamsMade, eyePosition, blinkDetected, tracking, eyePositionCounter,
                   frameSkipCounter, prevTotalBrightness, newPosition, voteRun, seeded,
                   netVotes, sample, blinkVars,
                   statusCheck, sent, logVars, simVars>>
    /\ StatusEffect
    /\ IntervalEffects

\* Lines 483-489: getUserMedia resolves with a stream, whatever has happened
\* to webcamActive or to the component since the request; the stream is given
\* to the video element if one is rendered (line 487), which is so only while
\* connected with the camera on (lines 815 and 822-824).
GumResolve(id) ==
    /\ id \in gumPending
    /\ gumPending' = gumPending \ {id}
    /\ liveStreams' = liveStreams \cup {id}
    /\ videoStream' = IF mounted THEN id ELSE videoStream
    /\ videoAttached' = IF mounted /\ connected /\ webcamActive THEN TRUE ELSE videoAttached
    /\ UNCHANGED <<now, connected, brainData, webcamActive, lastErrorTime, errorCount,
                   alertness, pollVars, ticks, jitter, cycleStartedAt, pollWaiting, connVars, mounted, effectStream,
                   streamsMade, eyePosition, blinkDetected, tracking, eyePositionCounter,
                   frameSkipCounter, prevTotalBrightness, newPosition, voteRun, seeded,
                   netVotes, sample, blinkVars,
                   statusCheck, sent, logVars, simVars>>
    /\ StatusEffect
    /\ IntervalEffects

\* Lines 501-505: getUserMedia rejects; setWebcamActive(false) runs the effect
\* again if the flag was set.
GumReject(id) ==
    /\ id \in gumPending
    /\ IF mounted /\ webcamActive
       THEN /\ webcamActive' = FALSE
            /\ WebcamEffect
            /\ gumPending' = gumPending \ {id}
       ELSE /\ gumPending' = gumPending \ {id}
            /\ UNCHANGED <<webcamActive, videoStream, liveStreams, effectStream,
                           streamsMade, tracking, videoAttached>>
    /\ UNCHANGED <<now, connected, brainData, lastErrorTime, errorCount, alertness,
                   pollVars, ticks, jitter, cycleStartedAt, pollWaiting, connVars, mounted, eyePosition, blinkDetected,
                   eyePositionCounter, frameSkipCounter, prevTotalBrightness,
                   newPosition, voteRun, seeded, netVotes, sample, blinkVars,
                   statusCheck, sent, logVars, simVars>>
    /\ StatusEffect
    /\ IntervalEffects

\* The component is torn down: the cleanup of the last run of the effect
\* (lines 516-520) stops the stream its closure holds.
Unmount ==
    /\ mounted
    /\ mounted' = FALSE
    /\ liveStreams' = liveStreams \ {effectStream}
    /\ tracking' = FALSE
    /\ videoAttached' = FALSE
    /\ pollDue' = FALSE
    /\ pollAt' = NoTimer
    /\ statusDue' = FALSE
    /\ statusAt' = NoTimer
    /\ smoothing' = FALSE
    /\ sending' = FALSE
    /\ sendDue' = FALSE
    /\ UNCHANGED <<now, connected, brainData, webcamActive, videoStream, lastErrorTime,
                   errorCount, alertness, poll, resetsInFlight, ticks, jitter, cycleStartedAt, pollWaiting,
                   connVars, gumPending, effectStream,
                   streamsMade, eyePosition, blinkDetected, eyePositionCounter,
                   frameSkipCounter, prevTotalBrightness, newPosition, voteRun,
                   seeded, netVotes, sample, blinkVars, statusCheck, sent, logVars, simVars>>

(***************************************************************************)
(* CamSpec: the camera of a session that is not connected, with toggles,   *)
(* teardown and the settling of getUserMedia in any order.                 *)
(***************************************************************************)
CamInit ==
    /\ SessionInit
    /\ NotConnectedInit
    /\ webcamActive = FALSE
    /\ NotTrackingInit
    /\ EffectsInit

CamNext ==
    \/ ToggleWebcam
    \/ \E id \in 1..MaxStreams : GumResolve(id)
    \/ \E id \in 1..MaxStreams : GumReject(id)
    \/ Unmount

CamSpec == CamInit /\ [][CamNext]_vars

\* C9: while webcamActive is false or the component is torn down, no acquired
\* stream has tracks that have not been stopped.
C9_NoStreamLeftLive ==
    (~webcamActive \/ ~mounted) => liveStreams = {}


(***************************************************************************)
(* The status check: checkBackend, lines 41-63.  Its closure holds the     *)
(* connected of the render in which the status effect ran.                 *)
(***************************************************************************)
\* checkBackend starts, from the effect (line 58) or from its interval
\* (line 59): it sends GET /api/status (line 44).
CheckBackendStart ==
    /\ mounted
    /\ statusCheck.pc = "idle"
    /\ statusDue \/ now = statusAt
    /\ statusCheck' = [pc |-> "asked", connected |-> connected]
    /\ statusDue' = FALSE
    /\ statusAt' = IF now = statusAt THEN now + StatusPeriod ELSE statusAt
    /\ UNCHANGED <<now, sessionVarsButConn, connVars, camVars, eyePosition, blinkDetected,
                   estVars, blinkVars, intervalVars, sent, logVars, simVars>>

\* Lines 44-56: the answer to GET /api/status.  r.kind is "ok", "not_ok"
\* or "throws" (fetch or response.json() throws); r.connected is the
\* connected field of the body, which is read whatever response.ok is.
StatusResponseAnyClosure(r) ==
    /\ statusCheck.pc = "asked"
    /\ statusCheck' = NoStatusCheck
    /\ connected' = IF r.kind # "throws" /\ r.connected THEN TRUE ELSE connected
    /\ UNCHANGED <<now, brainData, webcamActive, videoStream, lastErrorTime, errorCount,
                   alertness, poll, resetsInFlight, ticks, jitter, cycleStartedAt, pollWaiting, connVars, camVars,
                   eyePosition, blinkDetected, estVars, blinkVars, sent, logVars, simVars>>
    /\ PollEffect
    /\ StatusEffect
    /\ IntervalEffects

StatusResponse(r) ==
    /\ statusCheck.pc = "asked"
    /\ statusCheck' = NoStatusCheck
    /\ connected' = IF r.kind # "throws" /\ r.connected /\ ~statusCheck.connected
                    THEN TRUE ELSE connected
    /\ UNCHANGED <<now, brainData, webcamActive, videoStream, lastErrorTime, errorCount,
                   alertness, poll, resetsInFlight, ticks, jitter, cycleStartedAt, pollWaiting, connVars, camVars,
                   eyePosition, blinkDetected, estVars, blinkVars, sent, logVars, simVars>>
    /\ PollEffect
    /\ StatusEffect
    /\ IntervalEffects

\* The interval timers that are set.
SessionTimers == {t \in {pollAt, statusAt} : t # NoTimer /\ t > now}

\* The clock moves to the next firing of an interval, once the calls that are
\* due have been made and answered.
SessionClock(limit) ==
    /\ poll.pc = "idle" /\ ~(connected /\ pollDue)
    /\ statusCheck.pc = "idle" /\ ~statusDue
    /\ SessionTimers # {}
    /\ \E t \in SessionTimers :
          /\ \A u \in SessionTimers : t <= u
          /\ t <= StartTime + limit
          /\ now' = t
    /\ UNCHANGED <<sessionVarsButConn, connVars, camVars, statusVars, intervalVars,
                   eyePosition, blinkDetected, estVars, blinkVars, sent, logVars, simVars>>

(***************************************************************************)
(* StatusSpec: connecting, disconnecting, the reset, the status check and  *)
(* the data poll of a session whose remote answers in any way.             *)
(***************************************************************************)
StatusResponses ==
    { [kind |-> k, connected |-> c] : k \in {"ok", "not_ok", "throws"}, c \in BOOLEAN }

StatusConnectResponses == {"ok", "other_error"}

StatusDataResponses == { Response("ok", Payload(600, 650)), Response("not_ok", NoData) }

StatusMentalResponses == { Response("not_ok", NoData) }

StatusEyeResponses == { Response("ok", EyePayload("left", TRUE, "sleepy")) }

StatusInit == ConnInit

StatusNext ==
    \/ HandleConnectClick
    \/ \E kind \in StatusConnectResponses : ConnectResponse(kind)
    \/ \E threw \in BOOLEAN : DisconnectResponse(threw)
    \/ HandleResetClick
    \/ \E threw \in BOOLEAN : HandleResetDone(threw)
    \/ CheckBackendStart
    \/ \E r \in StatusResponses : StatusResponse(r)
    \/ PollStart
    \/ \E r \in StatusDataResponses : PollDataResponse(r)
    \/ \E r \in StatusMentalResponses : PollMentalResponse(r)
    \/ \E r \in StatusEyeResponses : PollEyeResponse(r)
    \/ SessionClock(MaxStatusTime)

StatusSpec == StatusInit /\ [][StatusNext]_vars

\* The step in which handleConnect receives the ok answer to POST /api/connect.
ConnectSucceeds ==
    /\ connectCall.pc = "connecting"
    /\ connectCall'.pc = "idle"

\* C12 as stated: connected goes from false to true only in the step in which
\* handleConnect receives an ok answer to POST /api/connect.
C12_OnlyExplicitConnect ==
    [][(~connected /\ connected') => ConnectSucceeds]_vars

\* C12: connected goes from false to true only in the step in which
\* handleConnect receives an ok answer to POST /api/connect, or in the step in
\* which a checkBackend whose closure holds connected = false receives an
\* answer; in no step of a data poll or eye-data poll, and in no reset.
C12_ConnectOrStatusOnly ==
    [][(~connected /\ connected') =>
          /\ poll' = poll
          /\ resetsInFlight' = resetsInFlight
          /\ \/ ConnectSucceeds /\ statusCheck' = statusCheck
             \/ /\ statusCheck.pc = "asked"
                /\ ~statusCheck.connected
                /\ statusCheck'.pc = "idle"
                /\ connectCall' = connectCall]_vars

\* C12 happens: handleConnect made the session, a poll cycle has run in it,
\* and the status check that the change of connected calls for is still to start.
C12_Witness ==
    /\ connected
    /\ connectCall.pc = "idle"
    /\ statusCheck.pc = "idle"
    /\ statusDue
    /\ brainData = Payload(600, 650)
    /\ eyePosition = "left"


(***************************************************************************)
(* EyeSpec: the eye tracking loop together with a poll cycle of the        *)
(* connected session, both of which write eyePosition.                     *)
(***************************************************************************)
EyeDataResponses == { Response("ok", Payload(600, 650)) }

EyeEyeResponses ==
    { Response("ok", EyePayload("left", FALSE, "sleepy")), Response("not_ok", NoData) }

EyeInit == EstInit

EyeNext ==
    \/ StartEyeTracking
    \/ SkipFrame
    \/ \E s \in EstSamples : ProcessFrame(s)
    \/ PollStart
    \/ \E r \in EyeDataResponses : PollDataResponse(r)
    \/ \E r \in EyeEyeResponses : PollEyeResponse(r)

EyeSpec == EyeInit /\ [][EyeNext]_vars

\* The step is a processed frame after whose vote a counter exceeds 5.
FrameCrossesThreshold ==
    /\ tracking
    /\ frameSkipCounter = 2
    /\ frameSkipCounter' = 0
    /\ \E d \in Directions : CountVote(eyePositionCounter, newPosition')[d] > 5

\* C13 as stated: eyePosition changes only in a step in which a vote counter
\* of the estimator exceeds 5.
C13_OnlyAtThreshold ==
    [][eyePosition' # eyePosition => FrameCrossesThreshold]_vars

\* C13: eyePosition changes only in a step in which a vote counter of the
\* estimator exceeds 5, or in the step in which fetchEyeData receives an
\* answer, which leaves the estimator's counters alone.
C13_ThresholdOrEyeData ==
    [][eyePosition' # eyePosition =>
          \/ FrameCrossesThreshold /\ poll' = poll
          \/ /\ poll.pc = "eye"
             /\ poll'.pc = "idle"
             /\ eyePosition' = "left"
             /\ UNCHANGED estVars]_vars

\* C13 happens: the estimator has committed right, and the answer to GET
\* /api/eye_data has then replaced it.
C13_Witness ==
    /\ seeded = "right"
    /\ eyePosition = "left"
    /\ alertness = "sleepy"
    /\ poll.pc = "idle"


(***************************************************************************)
(* The error log: the console.error that initDebugTools installs           *)
(* (src/utils/debug-helper.ts, lines 90-134; installed once, line 176).    *)
(* An entry is named by the number of the call that made it, which stands  *)
(* for its timestamp and its converted arguments.                          *)
(***************************************************************************)
\* Lines 102-109: the entry for a call.
LogEntry(call) == [call |-> call]

\* Lines 111-114: keep only the last 50.
EvictNewest(log) == IF Len(log) > LogCap THEN SubSeq(log, 1, LogCap) ELSE log

Evict(log) == IF Len(log) > LogCap THEN Tail(log) ELSE log

\* Lines 95-120: a call of console.error whose arguments convert and whose
\* log is read and written without an exception.
ConsoleError ==
    /\ errorCalls < MaxCalls
    /\ errorCalls' = errorCalls + 1
    /\ errorLog' = Evict(Append(errorLog, LogEntry(errorCalls + 1)))
    /\ UNCHANGED <<now, sessionVarsButConn, connVars, camVars, statusVars, intervalVars,
                   eyePosition, blinkDetected, estVars, blinkVars, sent, simVars>>

(***************************************************************************)
(* LogSpec: console.error called again and again, from an empty log.       *)
(***************************************************************************)
LogInit == ConnInit

LogNext == ConsoleError

LogSpec == LogInit /\ [][LogNext]_vars

SendEyeTrackingData ==
    /\ sending
    /\ sent' = [eye_position |-> eyePosition, blink |-> blinkDetected]
    /\ sendDue' = FALSE
    /\ UNCHANGED <<now, sessionVarsButConn, connVars, camVars, statusVars, smoothing,
                   sending, eyePosition, blinkDetected, estVars, blinkVars, logVars, simVars>>

(***************************************************************************)
(* TimerSpec: a session that is connected, disconnected and reset while    *)
(* the camera is switched on and off, with the data poll, the smoother and *)
(* the telemetry running on their intervals.                               *)
(***************************************************************************)
TimerConnectResponses == {"ok"}

TimerDataResponses == { Response("ok", Payload(600, 650)) }

TimerEyeResponses ==
    { Response("ok", EyePayload("left", FALSE, "awake")), Response("not_ok", NoData) }

TimerJitterSet == {0}

TimerInit == ConnInit

TimerNext ==
    \/ HandleConnectClick
    \/ \E kind \in TimerConnectResponses : ConnectResponse(kind)
    \/ \E threw \in BOOLEAN : DisconnectResponse(threw)
    \/ HandleResetClick
    \/ \E threw \in BOOLEAN : HandleResetDone(threw)
    \/ ToggleWebcam
    \/ PollStart
    \/ \E r \in TimerDataResponses : PollDataResponse(r)
    \/ \E r \in TimerEyeResponses : PollEyeResponse(r)
    \/ PollClock(MaxTimerTime)
    \/ \E jl, jr \in TimerJitterSet : SmoothTick(jl, jr)
    \/ SendEyeTrackingData

TimerSpec == TimerInit /\ [][TimerNext]_vars

\* C15: while connected is false there is no poll interval, no smoother
\* interval and no telemetry interval, and no first call of an effect is
\* pending; while webcamActive is false there is no smoother interval and no
\* telemetry interval.
C15_TimersTornDown ==
    /\ ~connected => /\ ~pollDue /\ pollAt = NoTimer
                     /\ ~smoothing
                     /\ ~sending /\ ~sendDue
    /\ ~webcamActive => /\ ~smoothing
                        /\ ~sending /\ ~sendDue

\* C15 happens: the poll, the smoother and the telemetry have run, and the
\* session has then been disconnected with the camera still on.
C15_Witness ==
    /\ ~connected
    /\ webcamActive
    /\ ticks > 0
    /\ sent # NoData
    /\ brainData = NoData
    /\ pollAt = NoTimer
    /\ ~sending


(***************************************************************************)
(* The vote counters of the eye tracking loop, in EstSpec.                 *)
(***************************************************************************)
\* The step is a frame that processFrame processes (lines 202-293).
FrameProcessed ==
    /\ tracking
    /\ frameSkipCounter = 2
    /\ frameSkipCounter' = 0
    /\ sample' # NoSample

\* C16: no vote counter is ever negative, and after a frame in which a counter
\* exceeded 5 the counter of the committed direction is 2 and the other two
\* are 0.
C16_NonNegativeAndResetToTwo ==
    [][/\ \A d \in Directions : eyePositionCounter[d] >= 0 /\ eyePositionCounter'[d] >= 0
       /\ (FrameProcessed /\ FrameCrossesThreshold) =>
             /\ eyePositionCounter'[eyePosition'] = 2
             /\ \A d \in Directions \ {eyePosition'} : eyePositionCounter'[d] = 0]_vars

\* C16 happens: a commit to left has reset the counters, and the next frame,
\* which voted right, has taken the counter of left from 2 to 1 and left that
\* of center at 0.
C16_Witness ==
    /\ seeded = "left"
    /\ eyePosition = "left"
    /\ newPosition = "right"
    /\ voteRun = 1
    /\ eyePositionCounter = [left |-> 1, center |-> 0, right |-> 1]

\* C17: a processed frame with brightness <<l, c, r>> votes left when
\* l / (c * 0.8) > 1.1 and l > r * 1.1, otherwise right when r / (c * 0.8) > 1.1
\* and r > l * 1.1, otherwise center; the counter voted for gains 1 and the
\* other two lose 1, not below 0.  (The counters are those before the reset of
\* a frame that commits.)
C17_OneVotePerFrame ==
    [][FrameProcessed =>
          LET l == sample'[1]
              c == sample'[2]
              r == sample'[3]
              leftRatioOver == IF c = 0 THEN l > 0 ELSE 100 * l > 88 * c
              rightRatioOver == IF c = 0 THEN r > 0 ELSE 100 * r > 88 * c
              voted == IF leftRatioOver /\ 10 * l > 11 * r THEN "left"
                       ELSE IF rightRatioOver /\ 10 * r > 11 * l THEN "right"
                       ELSE "center"
              after == [d \in Directions |->
                           IF d = voted THEN eyePositionCounter[d] + 1
                           ELSE IF eyePositionCounter[d] = 0 THEN 0
                           ELSE eyePositionCounter[d] - 1]
          IN  /\ newPosition' = voted
              /\ \/ eyePositionCounter' = after
                 \/ /\ \E d \in Directions : after[d] > 5
                    /\ eyePositionCounter' = [d \in Directions |->
                                                 IF d = eyePosition' THEN 2 ELSE 0]]_vars

\* C17 happens: the frame <<99, 90, 90>>, whose left is not above right * 1.1,
\* has voted center after a frame that voted left, and the counter of right
\* has stayed at 0.
C17_Witness ==
    /\ sample = <<99, 90, 90>>
    /\ newPosition = "center"
    /\ eyePositionCounter = [left |-> 0, center |-> 5, right |-> 0]
    /\ prevTotalBrightness = 279
    /\ voteRun = 1


(***************************************************************************)
(* The no-op of the smoothing tick, in SmoothSpec.                         *)
(***************************************************************************)
\* C18 as stated: a tick leaves brainData unchanged if the change of either
\* scalar is below 0.001; so a tick that stores has changed both scalars by
\* 0.001 or more.
C18_NoOpIfEitherSmall ==
    [][(/\ ticks' # ticks
        /\ \/ Abs(brainData'.left - brainData.left) < 1
           \/ Abs(brainData'.right - brainData.right) < 1)
       => brainData' = brainData]_vars

\* C18 as amended: a tick leaves brainData unchanged exactly when the changes
\* of both scalars are at most 0.001; when either change is larger it stores
\* both new values.
C18_NoOpIffBothSmall ==
    [][ticks' # ticks =>
          LET newLeftValue == Clamp(SmoothedLeft(eyePosition, brainData.left) + jitter'[1])
              newRightValue == Clamp(SmoothedRight(eyePosition, brainData.right) + jitter'[2])
          IN  IF /\ Abs(newLeftValue - brainData.left) <= 1
                 /\ Abs(newRightValue - brainData.right) <= 1
              THEN brainData' = brainData
              ELSE /\ brainData'.left = newLeftValue
                   /\ brainData'.right = newRightValue]_vars

\* C18 happens: with the direction center, the second tick has run on
\* {left: 0.6, right: 0.65}, the targets themselves, with jitter 0 for left and
\* 0.015 for right: left did not change, right did, and the tick stored.
C18_Witness ==
    /\ ticks = 2
    /\ jitter = <<0, MaxJitter>>
    /\ eyePosition = "center"
    /\ brainData.left = 600
    /\ brainData.right = 665


(***************************************************************************)
(* The counting of failed data polls, in PollSpec.                         *)
(***************************************************************************)
\* The step is the answer to GET /api/mental_state of a cycle whose two data
\* requests have both failed without throwing, and whose closure holds the
\* current lastErrorTime.
BothFailedStep ==
    /\ poll.pc = "mental"
    /\ poll'.pc = "eye"
    /\ poll'.got.kind \in {"no_success", "not_ok"}
    /\ poll.lastErrorTime = lastErrorTime

ThrowStep ==
    /\ poll.pc \in {"data", "mental"}
    /\ poll'.pc = "eye"
    /\ poll'.got.kind = "throws"
    /\ poll.lastErrorTime = lastErrorTime
    /\ poll.errorCount = errorCount

\* C20: a data poll whose request throws changes errorCount and lastErrorTime,
\* and calls handleReset, as a poll does whose two endpoints have failed
\* without throwing: the failure is counted and its time recorded when more
\* than 5000 ms have passed since the last one and not otherwise, and
\* handleReset is called when errorCount exceeds 5.
C20_ThrowLikeOtherFailures ==
    [][ThrowStep =>
          /\ errorCount' = IF FailureCounted THEN errorCount + 1 ELSE errorCount
          /\ lastErrorTime' = IF FailureCounted THEN now ELSE lastErrorTime
          /\ resetsInFlight' = IF ResetDue THEN resetsInFlight + 1
                               ELSE resetsInFlight]_vars


(***************************************************************************)
(* Answers that arrive after the session was torn down, in TimerSpec.      *)
(***************************************************************************)
\* C21: an ok answer to GET /api/data that arrives while connected is false
\* (the cycle was in flight when a disconnect or a reset set the state) is
\* adopted all the same: brainData becomes the payload and connected stays
\* false.
C21_StaleAnswerApplied ==
    [][(/\ poll.pc = "data"
        /\ poll'.pc = "eye"
        /\ poll'.got.kind = "ok"
        /\ ~connected)
       => (/\ brainData' = poll'.got.data
           /\ brainData' # NoData
           /\ connected' = FALSE)]_vars

\* C21 happens: the session is not connected, no connect or reset is under
\* way, and brainData holds the payload of the answer that came after the
\* teardown, whose cycle is now asking for the eye data.
C21_Witness ==
    /\ ~connected
    /\ brainData = Payload(600, 650)
    /\ poll.pc = "eye"
    /\ poll.got.kind = "ok"
    /\ connectCall = NoCall
    /\ resetsInFlight = 0
    /\ ~pollDue


(***************************************************************************)
(* The cadence of the data poll, in PollSpec.                              *)
(***************************************************************************)
\* C22: while connected, every fetchBothData cycle but the first starts
\* exactly 200 ms after the start of the one before it, never sooner, whether
\* the requests of that one succeeded or failed.
C22_CyclesStart200msApart ==
    [][(/\ poll.pc = "idle"
        /\ poll'.pc = "data"
        /\ cycleStartedAt # NoTimer)
       => now - cycleStartedAt = PollPeriod]_vars


(***************************************************************************)
(* The label of the activity, in SmoothSpec.                               *)
(***************************************************************************)
\* C23: a tick of updateBrainValues that stores leaves in brainData the label
\* analytical if the stored left > right * 1.2, creative if the stored
\* right > left * 1.2, and balanced otherwise.
C23_LabelFromStoredValues ==
    [][(ticks' # ticks /\ brainData' # brainData) =>
          brainData'.state =
              IF 10 * brainData'.left > 12 * brainData'.right THEN "analytical"
              ELSE IF 10 * brainData'.right > 12 * brainData'.left THEN "creative"
              ELSE "balanced"]_vars

\* C23 happens: the poll had adopted {left: 0.3, right: 0.8} with the label
\* balanced of the remote; the first tick, with the direction center and no
\* jitter, has stored {left: 0.33, right: 0.785} and the label creative.
C23_Witness ==
    /\ ticks = 1
    /\ jitter = <<0, 0>>
    /\ brainData.left = 330
    /\ brainData.right = 785
    /\ brainData.state = "creative"


(***************************************************************************)
(* The range of the vote counters and the tie-break, in EstSpec.           *)
(***************************************************************************)
\* C24: before and after every frame each vote counter is within 0..5, and at
\* the commit check of a processed frame at most one counter exceeds 5, the
\* one of the direction that is then committed.
C24_CountersWithinFiveNoTie ==
    [][/\ \A d \in Directions :
              /\ eyePositionCounter[d] \in 0..5
              /\ eyePositionCounter'[d] \in 0..5
       /\ FrameProcessed =>
              LET counted == [d \in Directions |->
                                 IF d = newPosition' THEN eyePositionCounter[d] + 1
                                 ELSE IF eyePositionCounter[d] = 0 THEN 0
                                 ELSE eyePositionCounter[d] - 1]
                  over == {d \in Directions : counted[d] > 5}
              IN  /\ Cardinality(over) <= 1
                  /\ \A d \in over : eyePosition' = d /\ d = newPosition']_vars

\* C24 happens: a frame that voted right has taken the counter of right,
\* alone, above 5; right was committed and the counters were reset.
C24_Witness ==
    /\ newPosition = "right"
    /\ eyePosition = "right"
    /\ seeded = "right"
    /\ netVotes = NoVotes
    /\ eyePositionCounter = [left |-> 0, center |-> 0, right |-> 2]


(***************************************************************************)
(* What handleReset leaves behind, in PollSpec.                            *)
(***************************************************************************)
\* C25: when a handleReset call ends, whether its requests were answered or
\* one of them threw, connected is false, brainData is null and errorCount is
\* 0, and webcamActive, videoStream, eyePosition and lastErrorTime are as they
\* were.
C25_ResetEndsDisconnected ==
    [][(resetsInFlight' = resetsInFlight - 1) =>
          /\ connected' = FALSE
          /\ brainData' = NoData
          /\ errorCount' = 0
          /\ UNCHANGED <<webcamActive, videoStream, eyePosition, lastErrorTime>>]_vars

\* C25 happens: a failure was counted at StartTime and the eye poll reported
\* left; the reset that has ended since has cleared errorCount and the
\* connection and has kept lastErrorTime and eyePosition.
C25_Witness ==
    /\ now = StartTime
    /\ lastErrorTime = StartTime
    /\ eyePosition = "left"
    /\ ~connected
    /\ brainData = NoData
    /\ errorCount = 0
    /\ resetsInFlight = 0
    /\ poll.pc = "idle"


(***************************************************************************)
(* OverlapSpec: the data poll with a slow cycle.  setInterval (line 173)   *)
(* and the initial call of line 172 do not wait for the cycle in flight,   *)
(* so a cycle whose answer is slow is overtaken by the next one; it keeps  *)
(* the errorCount and lastErrorTime of the effect run that started it.     *)
(* The remote answers GET /api/data in three ways and fails the other two  *)
(* requests.                                                               *)
(***************************************************************************)
\* The clock of OverlapSpec stops this many ms after StartTime.
MaxOverlapTime == 200

\* The next answer of the cycle in flight is slow: the cycle waits aside.
PollDefer ==
    /\ poll.pc # "idle"
    /\ pollWaiting = IdlePoll
    /\ pollWaiting' = poll
    /\ poll' = IdlePoll
    /\ UNCHANGED <<now, connected, brainData, webcamActive, videoStream, lastErrorTime,
                   errorCount, alertness, pollDue, pollAt, resetsInFlight, ticks, jitter,
                   cycleStartedAt, eyePosition, blinkDetected, estVars, blinkVars,
                   connVars, camVars, statusCheck, sent, logVars, simVars>>
    /\ StatusEffect
    /\ IntervalEffects

\* The answer of the slow cycle arrives: the cycle goes on.
PollResume ==
    /\ poll.pc = "idle"
    /\ pollWaiting # IdlePoll
    /\ poll' = pollWaiting
    /\ pollWaiting' = IdlePoll
    /\ UNCHANGED <<now, connected, brainData, webcamActive, videoStream, lastErrorTime,
                   errorCount, alertness, pollDue, pollAt, resetsInFlight, ticks, jitter,
                   cycleStartedAt, eyePosition, blinkDetected, estVars, blinkVars,
                   connVars, camVars, statusCheck, sent, logVars, simVars>>
    /\ StatusEffect
    /\ IntervalEffects

OverlapDataResponses ==
    { Response("ok", Payload(600, 650)), Response("not_ok", NoData),
      Response("throws", NoData) }

OverlapMentalResponses == { Response("not_ok", NoData) }

OverlapEyeResponses == { Response("not_ok", NoData) }

OverlapInit == PollInit

OverlapNext ==
    \/ PollStart
    \/ \E r \in OverlapDataResponses : PollDataResponse(r)
    \/ \E r \in OverlapMentalResponses : PollMentalResponse(r)
    \/ \E r \in OverlapEyeResponses : PollEyeResponse(r)
    \/ PollClock(MaxOverlapTime)
    \/ PollDefer
    \/ PollResume
    \/ \E threw \in BOOLEAN : HandleResetDone(threw)

OverlapSpec == OverlapInit /\ [][OverlapNext]_vars

\* The step is a failed cycle calling handleReset (line 140).
AutoResetStep ==
    /\ poll.pc = "mental"
    /\ poll'.pc = "eye"
    /\ resetsInFlight' = resetsInFlight + 1

\* C26: an ok answer of either data endpoint sets errorCount to 0, and a cycle
\* calls handleReset only when more than 5 failures have been counted since
\* the last ok answer, that is while errorCount exceeds 5 (in a session that
\* no reset has ended, only an ok answer lowers errorCount).
C26_ResetOnlyAfterSixFailures ==
    [][/\ (poll.pc \in {"data", "mental"} /\ poll'.pc = "eye" /\ poll'.got.kind = "ok")
              => errorCount' = 0
       /\ (AutoResetStep /\ connected) => errorCount > 5]_vars


(***************************************************************************)
(* The number of live camera streams, in CamSpec.                          *)
(***************************************************************************)
\* C27: at any time at most one stream has been acquired and not stopped,
\* however the camera toggles and the answers of getUserMedia interleave.
C27_AtMostOneLiveStream ==
    Cardinality(liveStreams) <= 1


(***************************************************************************)
(* TrackSpec: the start of eye tracking.  The session connects and         *)
(* disconnects, the camera is toggled, getUserMedia resolves, and the      *)
(* video that has received a stream starts playing.                        *)
(***************************************************************************)
\* Lines 489-493: the video element that received the stream fires
\* onloadedmetadata, play() resolves and startEyeTracking runs.
PlayThenStart ==
    /\ videoAttached
    /\ ~tracking
    /\ StartEyeTracking

TrackConnectResponses == {"ok", "other_error"}

TrackInit == ConnInit

TrackNext ==
    \/ HandleConnectClick
    \/ \E kind \in TrackConnectResponses : ConnectResponse(kind)
    \/ \E threw \in BOOLEAN : DisconnectResponse(threw)
    \/ ToggleWebcam
    \/ \E id \in 1..MaxStreams : GumResolve(id)
    \/ PlayThenStart

TrackSpec == TrackInit /\ [][TrackNext]_vars

\* C28: eye tracking starts only on a video element that has received the
\* stream; an element receives it only in the step in which getUserMedia
\* resolves, and only if it is rendered then, that is connected with the camera
\* on; an element that is removed takes the stream with it; and getUserMedia is
\* called only in a step that turns the camera on.  So a stream that resolves
\* while not connected never leads to tracking, also after a later connect,
\* until the camera has been turned off and on again.
C28_TrackingNeedsVideoAtResolve ==
    [][/\ (tracking' /\ ~tracking) => videoAttached
       /\ (videoAttached' /\ ~videoAttached) =>
              /\ connected /\ webcamActive
              /\ gumPending' # gumPending
              /\ liveStreams' # liveStreams
       /\ (liveStreams' \ liveStreams # {} /\ ~connected) => (~videoAttached' /\ ~tracking')
       /\ videoAttached' => (connected' /\ webcamActive')
       /\ tracking' => videoAttached'
       /\ (gumPending' \ gumPending # {}) => (~webcamActive /\ webcamActive')]_vars

\* C28 happens: the one getUserMedia request ever made has resolved while the
\* session was not connected; the session is connected since, the camera is on
\* and its stream is live, and no tracking has started.
C28_Witness ==
    /\ connected
    /\ connectCall = NoCall
    /\ webcamActive
    /\ streamsMade = 1
    /\ gumPending = {}
    /\ videoStream = 1
    /\ liveStreams = {1}
    /\ ~videoAttached
    /\ ~tracking


MENTAL_STATES == {"Focused", "Relaxed", "Distracted", "Neutral"}

\* private stateInterval = 5000 (line 13) and this.stateTimer += 100 (line 46)
StateInterval == 5000
TimerStep == 100

\* connect, lines 16-22.
SimConnect ==
    /\ sim' = [sim EXCEPT !.connected = TRUE, !.lastOp = "connect"]
    /\ UNCHANGED <<now, sessionVarsButConn, connVars, camVars, statusVars, intervalVars,
                   eyePosition, blinkDetected, estVars, blinkVars, sent, logVars, simCall>>

\* disconnect, lines 25-31.
SimDisconnect ==
    /\ sim' = [sim EXCEPT !.connected = FALSE, !.lastOp = "disconnect"]
    /\ UNCHANGED <<now, sessionVarsButConn, connVars, camVars, statusVars, intervalVars,
                   eyePosition, blinkDetected, estVars, blinkVars, sent, logVars, simCall>>

\* Lines 46-50 with the timer advanced before the test of line 40.
AdvancedAnyway(s, next) ==
    IF s.stateTimer + TimerStep >= StateInterval
    THEN [s EXCEPT !.stateTimer = 0, !.currentState = next]
    ELSE [s EXCEPT !.stateTimer = s.stateTimer + TimerStep]

\* Lines 40-50: nothing when not connected; else the timer advances and, at
\* the interval, returns to 0 with a state drawn at random (next).
Advanced(s, next) ==
    IF ~s.connected THEN s
    ELSE IF s.stateTimer + TimerStep >= StateInterval
    THEN [s EXCEPT !.stateTimer = 0, !.currentState = next]
    ELSE [s EXCEPT !.stateTimer = s.stateTimer + TimerStep]

\* getEEGData, lines 39-87: null when not connected, else data.
GetEEGData(next) ==
    /\ simCall.result # "pending"
    /\ sim' = Advanced(sim, next)
    /\ simCall' = [op |-> "eeg",
                   result |-> IF sim.connected THEN "value" ELSE "null",
                   eeg |-> IF sim.connected THEN "value" ELSE "null"]
    /\ UNCHANGED <<now, sessionVarsButConn, connVars, camVars, statusVars, intervalVars,
                   eyePosition, blinkDetected, estVars, blinkVars, sent, logVars>>

\* getMentalState, lines 91-97: null when not connected, else getEEGData is
\* called and its promise awaited.
GetMentalState(next) ==
    /\ simCall.result # "pending"
    /\ sim' = Advanced(sim, next)
    /\ simCall' = [op |-> "mental",
                   result |-> IF sim.connected THEN "pending" ELSE "null",
                   eeg |-> IF sim.connected THEN "value" ELSE "none"]
    /\ UNCHANGED <<now, sessionVarsButConn, connVars, camVars, statusVars, intervalVars,
                   eyePosition, blinkDetected, estVars, blinkVars, sent, logVars>>

\* The then callback of getMentalState, lines 97-110: null if the data is
\* null, else the mental state.
MentalStateThen ==
    /\ simCall.result = "pending"
    /\ simCall' = [simCall EXCEPT !.result = IF simCall.eeg = "null" THEN "null"
                                             ELSE "value"]
    /\ UNCHANGED <<now, sessionVarsButConn, connVars, camVars, statusVars, intervalVars,
                   eyePosition, blinkDetected, estVars, blinkVars, sent, logVars, sim>>

(***************************************************************************)
(* SimSpec: any sequence of calls on the simulator.                        *)
(***************************************************************************)
SimInit == ConnInit

SimNext ==
    \/ SimConnect
    \/ SimDisconnect
    \/ \E next \in MENTAL_STATES : GetEEGData(next)
    \/ \E next \in MENTAL_STATES : GetMentalState(next)
    \/ MentalStateThen

SimSpec == SimInit /\ [][SimNext]_vars

\* C30: the simulator is connected exactly when the last of its connect and
\* disconnect calls was a connect; a getEEGData or getMentalState call resolves
\* to null exactly when the simulator is not connected when it is made, and
\* then changes neither stateTimer nor currentState; a getMentalState that was
\* made while connected resolves to a mental state, whatever calls came
\* before its then callback.
C30_NullExactlyWhenNotConnected ==
    [][/\ sim.connected = (sim.lastOp = "connect")
       /\ sim'.connected = (sim'.lastOp = "connect")
       /\ (simCall.result # "pending" /\ (simCall' # simCall \/ sim' # sim)
           /\ sim'.lastOp = sim.lastOp /\ sim'.connected = sim.connected) =>
              /\ (simCall'.result = "null") = ~sim.connected
              /\ simCall'.result = "null" =>
                     /\ sim'.stateTimer = sim.stateTimer
                     /\ sim'.currentState = sim.currentState
              /\ simCall'.result # "null" => simCall'.result \in {"value", "pending"}
       /\ simCall.result = "pending" =>
              simCall'.result \in {"pending", "value"}]_vars

\* C30 happens: three calls had advanced the timer to 300 when disconnect was
\* called; the getMentalState made since has resolved to null and the timer
\* and the state are as they were.
C30_Witness ==
    /\ sim = [connected |-> FALSE, currentState |-> "Neutral", stateTimer |-> 300,
              lastOp |-> "disconnect"]
    /\ simCall = [op |-> "mental", result |-> "null", eeg |-> "none"]

====
